---- MODULE Spec2Model ----
(***************************************************************************)
(* Verification model of ax-devil-rtsp.                                    *)
(*                                                                         *)
(* Specifications Spec, SpecCycles, SpecRestart and SpecPoll: the harness  *)
(* of rtsp_data_retrievers.py, that is RtspDataRetriever (start / stop /   *)
(* close / context manager / is_running), its dispatch thread              *)
(* (_queue_dispatch_loop) and the worker subprocess as the retriever sees  *)
(* it (it puts events on the queue, it ends, it is terminated).            *)
(*                                                                         *)
(* Time is counted in units of QUEUE_POLL_INTERVAL (0.5 s).  A Tick is one *)
(* such interval: a queue.get(timeout=QUEUE_POLL_INTERVAL) that finds      *)
(* nothing raises Empty at the tick, and join(timeout=2) expires after 4   *)
(* ticks.  Steps that do not wait (loop tests, the handling of Empty, the  *)
(* body of stop()) take no time: no Tick passes while one of them is       *)
(* pending.  User callbacks may take arbitrarily long.  SpecRestart and    *)
(* SpecCycles allow one more start() than Spec, SpecPoll one start() and a *)
(* long horizon.                                                           *)
(*                                                                         *)
(* Specification SpecWorker: one worker subprocess from the inside, that   *)
(* is _client_process and the CombinedRTSPClient it runs (constructor,     *)
(* start, main loop, bus messages, samples, timeout timer, _report_error,  *)
(* stop), up to the exit code of the process.                              *)
(***************************************************************************)
EXTENDS Integers, Sequences, FiniteSets, TLC

\* ------------------------------------------------------------------ bounds
MaxCycles == 1        \* successful start() calls in one behaviour of Spec
MaxEvents == 2        \* events put on the queue in one behaviour
MaxTicks == 4         \* poll intervals that pass in one behaviour of Spec
PollTicks == 21       \* poll intervals in one behaviour of SpecPoll
MaxPackets == 3       \* packets fed to the application-data parsers
MaxCalls == 3         \* calls of RTSPProtocolClient methods by a free caller
MaxSdpLines == 3      \* lines of an SDP body
MaxTimeout == 2       \* largest connection_timeout of SpecWorker, in seconds

\* ------------------------------------------------------- program constants
TicksPerSecond == 2          \* 1 / QUEUE_POLL_INTERVAL
wait_time_s == 10            \* _queue_dispatch_loop: wait_time_s
JoinTimeoutS == 2            \* stop(): self._queue_thread.join(timeout=2)

MAX_EMPTY_POLLS == wait_time_s * TicksPerSecond
JoinTimeoutTicks == JoinTimeoutS * TicksPerSecond

None == 0
Ids == 1..(MaxCycles + 1)     \* workers and dispatch threads, by start()
CallerIds == {1, 2}

Kinds == {"video", "application_data", "error", "session_start"}

\* Callback registrations the retriever is constructed with: a video
\* retriever with on_video_data and on_error, an application-data retriever
\* with on_application_data only.
CallbackConfigs ==
    { [cbs |-> {"video", "error"}, vpf |-> FALSE],
      [cbs |-> {"application_data"}, vpf |-> FALSE] }

NoItem == [kind |-> "none", gen |-> 0, n |-> 0]

VARIABLES
    callers,            \* threads of the application that call the API
    apiPc,              \* where each caller is inside an API call
    joinTicks,          \* ticks a caller has waited in _queue_thread.join
    joinTarget,         \* the thread object a caller is joining (or None)
    proc,               \* self._proc        (None or a worker id)
    queue_thread,       \* self._queue_thread (None or a thread id)
    stop_event,         \* self._stop_event
    queue,              \* self._queue (mp.Queue, FIFO)
    callbacks,          \* kinds with a registered consumer callback
    video_processing_fn,\* whether a video_processing_fn was given
    workers,            \* worker subprocesses, by id
    threads,            \* dispatch threads, by id
    limits,             \* bounds of the exploration (starts, events, ticks)
    nStarted,           \* number of workers spawned so far
    nPut,               \* number of events put on the queue so far
    nTicks,             \* number of poll intervals that have passed
    quiet,              \* history: a stop() has returned, no start() since
    client,             \* SpecWorker: the worker process and its client
    rx,                 \* SpecReassembler: the application-data parsers
    session             \* SpecSession: RTSPProtocolClient and its peer

vars == << callers, apiPc, joinTicks, joinTarget, proc, queue_thread,
           stop_event, queue, callbacks, video_processing_fn, workers,
           threads, limits, nStarted, nPut, nTicks, quiet, client, rx,
           session >>

\* the state of the retriever and of what it has spawned
retrieverVars == << proc, queue_thread, stop_event, queue, workers, threads,
                    nStarted >>

apiVars == << apiPc, joinTicks, joinTarget >>
configVars == << callers, callbacks, video_processing_fn, limits, client,
                 rx, session >>
countVars == << nPut, nTicks >>

\* ----------------------------------------------------------------- helpers
\* mp.Process.is_alive()
is_alive(w) == workers[w].pc = "alive"

\* threading.Thread.is_alive()
thread_is_alive(t) == threads[t].pc \notin {"unborn", "done"}

\* RtspDataRetriever.is_running
is_running == proc # None /\ is_alive(proc)

\* mutant of AlreadyStarted: start() without its guard
NeverAlreadyStarted == FALSE

\* start(): "if self._proc is not None and self._proc.is_alive()"
AlreadyStarted == proc # None /\ is_alive(proc)

\* mutant of NothingToStop: stop() without its early return
StopsAnyway == FALSE

\* stop(): "if self._proc is None: return"
NothingToStop == proc = None

\* arguments start() passes to _client_process
enable_video == ("video" \in callbacks) \/ video_processing_fn
enable_application == "application_data" \in callbacks

NewWorker == [pc |-> "unborn"]
NewThread == [pc |-> "unborn", item |-> NoItem, cb |-> "none",
              empties |-> 0, raised |-> FALSE]

InitRetriever ==
    /\ apiPc = [c \in CallerIds |-> "idle"]
    /\ joinTicks = [c \in CallerIds |-> 0]
    /\ joinTarget = [c \in CallerIds |-> None]
    /\ proc = None
    /\ queue_thread = None
    /\ stop_event = FALSE
    /\ queue = << >>
    /\ \E cfg \in CallbackConfigs : /\ callbacks = cfg.cbs
                                    /\ video_processing_fn = cfg.vpf
    /\ workers = [w \in Ids |-> NewWorker]
    /\ threads = [t \in Ids |-> NewThread]
    /\ nStarted = 0
    /\ nPut = 0
    /\ nTicks = 0
    /\ quiet = FALSE

\* no worker is looked into
NoClient == [pc |-> "none"]

\* no packet parser and no RTSP session is looked into
Absent == [pc |-> "none"]

Init ==
    /\ InitRetriever
    /\ client = NoClient
    /\ rx = Absent
    /\ session = Absent
    /\ callers = {1}
    /\ limits = [starts |-> MaxCycles, events |-> MaxEvents,
                 ticks |-> MaxTicks]

\* ------------------------------------------------------- RtspDataRetriever
StartOps == {"start", "__enter__"}
StopOps == {"stop", "close", "__exit__"}

\* start() / __enter__(): raise RuntimeError if a live worker exists, else
\* reset the handles, clear the stop flag, spawn the worker and the dispatch
\* thread.
start(c, op) ==
    /\ c \in callers
    /\ op \in StartOps
    /\ apiPc[c] = "idle"
    /\ IF AlreadyStarted
       THEN /\ apiPc' = [apiPc EXCEPT ![c] = "RuntimeError"]
            /\ UNCHANGED << proc, queue_thread, stop_event, workers, threads,
                            nStarted, quiet >>
       ELSE /\ nStarted < limits.starts
            /\ LET w == nStarted + 1 IN
               /\ proc' = w
               /\ queue_thread' = w
               /\ workers' = [workers EXCEPT ![w].pc = "alive"]
               /\ threads' = [threads EXCEPT ![w].pc = "loop"]
               /\ nStarted' = w
            /\ stop_event' = FALSE
            /\ quiet' = FALSE
            /\ UNCHANGED apiPc
    /\ UNCHANGED << joinTicks, joinTarget, queue, countVars, configVars >>

\* the exception of an API call has reached the application
raised(c) ==
    /\ c \in callers
    /\ apiPc[c] \in {"RuntimeError", "AttributeError"}
    /\ apiPc' = [apiPc EXCEPT ![c] = "idle"]
    /\ UNCHANGED << joinTicks, joinTarget, retrieverVars, quiet, countVars,
                    configVars >>

\* stop() / close() / __exit__(), first part: "if self._proc is None:
\* return", else self._stop_event.set().  __exit__ calls stop() inside
\* "try: ... except Exception", which is remembered for the way out.
stop_begin(c, op) ==
    /\ c \in callers
    /\ op \in StopOps
    /\ apiPc[c] = "idle"
    /\ IF NothingToStop
       THEN /\ quiet' = TRUE
            /\ UNCHANGED << apiPc, stop_event >>
       ELSE /\ apiPc' = [apiPc EXCEPT ![c] =
                  IF op = "__exit__" THEN "exit_alive" ELSE "stop_alive"]
            /\ stop_event' = TRUE
            /\ UNCHANGED quiet
    /\ UNCHANGED << joinTicks, joinTarget, proc, queue_thread, queue,
                    workers, threads, nStarted, countVars, configVars >>

\* mutant of Terminated: stop() drops the handle of a worker it left alive
LeftAlive(w) == workers

\* proc.terminate(); proc.join()
Terminated(w) == [workers EXCEPT ![w].pc = "dead"]

\* stop(), the try block: "if self._proc.is_alive(): terminate(); join()".
\* A handle that another caller has set to None meanwhile raises
\* AttributeError; the finally block runs in both cases and first reads
\* self._queue_thread.
stop_terminate(c) ==
    /\ c \in callers
    /\ apiPc[c] \in {"stop_alive", "exit_alive"}
    /\ IF proc = None
       THEN /\ apiPc' = [apiPc EXCEPT ![c] =
                  IF @ = "exit_alive" THEN "exit_join_exc"
                  ELSE "stop_join_exc"]
            /\ UNCHANGED workers
       ELSE /\ apiPc' = [apiPc EXCEPT ![c] = "stop_join"]
            /\ workers' = IF is_alive(proc) THEN Terminated(proc)
                          ELSE workers
    /\ joinTicks' = [joinTicks EXCEPT ![c] = 0]
    /\ joinTarget' = [joinTarget EXCEPT ![c] =
          IF queue_thread # None /\ thread_is_alive(queue_thread)
          THEN queue_thread ELSE None]
    /\ UNCHANGED << proc, queue_thread, stop_event, queue, threads,
                    nStarted, quiet, countVars, configVars >>

Joining(c) == apiPc[c] \in {"stop_join", "stop_join_exc", "exit_join_exc"}

\* join(timeout=2) has returned: the thread ended or the timeout expired
JoinReturned(c) ==
    IF joinTarget[c] = None THEN TRUE
    ELSE \/ ~thread_is_alive(joinTarget[c])
         \/ joinTicks[c] >= JoinTimeoutTicks

\* stop(), the finally block after the join: both handles are dropped and
\* the call returns, or the pending exception goes on (__exit__ logs it and
\* returns).
stop_finish(c) ==
    /\ c \in callers
    /\ Joining(c)
    /\ JoinReturned(c)
    /\ proc' = None
    /\ queue_thread' = None
    /\ apiPc' = [apiPc EXCEPT ![c] =
          IF @ = "stop_join_exc" THEN "AttributeError" ELSE "idle"]
    /\ joinTicks' = [joinTicks EXCEPT ![c] = 0]
    /\ joinTarget' = [joinTarget EXCEPT ![c] = None]
    /\ quiet' = TRUE
    /\ UNCHANGED << stop_event, queue, workers, threads, nStarted,
                    countVars, configVars >>

\* ---------------------------------------------------- _queue_dispatch_loop
threadFrame == << apiVars, proc, queue_thread, stop_event, workers, nStarted,
                  quiet, countVars, configVars >>

\* the loop is left (break, or the while test fails)
ThreadEnd(t) ==
    threads' = [threads EXCEPT ![t] = [NewThread EXCEPT !.pc = "done"]]

\* "while not self._stop_event.is_set():"
loop_test(t) ==
    /\ threads[t].pc = "loop"
    /\ IF stop_event
       THEN ThreadEnd(t)
       ELSE threads' = [threads EXCEPT ![t].pc = "get"]
    /\ UNCHANGED << queue, threadFrame >>

\* "except (EOFError, OSError): break": the pipe of the queue is broken and
\* get raises instead of blocking
queue_error(t) ==
    /\ threads[t].pc = "get"
    /\ ThreadEnd(t)
    /\ UNCHANGED << queue, threadFrame >>

\* mutant of CallbackFor: every branch of the chain calls the video callback
AlwaysVideoCallback(kind) ==
    IF kind \in Kinds /\ kind \in callbacks /\ "video" \in callbacks
    THEN "video" ELSE "none"

\* The callback the if/elif chain selects for a kind ("none": no branch)
CallbackFor(kind) == IF kind \in Kinds /\ kind \in callbacks
                     THEN kind ELSE "none"

\* what queue.get leaves in the queue
AfterGet(q) == Tail(q)

\* "item = self._queue.get(timeout=...)" returns an item;
\* "consecutive_empty = 0".  With nothing on the queue get raises Empty at
\* a Tick; a broken pipe (EOFError, OSError) is queue_error, which only
\* NextQueueError takes.
queue_get(t) ==
    /\ threads[t].pc = "get"
    /\ queue # << >>
    /\ threads' = [threads EXCEPT ![t].pc = "dispatch",
                       ![t].item = Head(queue), ![t].empties = 0]
    /\ queue' = AfterGet(queue)
    /\ UNCHANGED threadFrame

\* "kind = item.get('kind')" and the if/elif chain: the callback registered
\* for the kind is called with the item; without one the loop goes on.
dispatch(t) ==
    /\ threads[t].pc = "dispatch"
    /\ LET cb == CallbackFor(threads[t].item.kind) IN
       IF cb = "none"
       THEN threads' = [threads EXCEPT ![t].pc = "loop", ![t].item = NoItem]
       ELSE threads' = [threads EXCEPT ![t].pc = "callback", ![t].cb = cb]
    /\ UNCHANGED << queue, threadFrame >>

\* mutant of AfterCallback: an exception of the callback ends the loop
LoopDiesOnRaise(t, raises) ==
    IF raises
    THEN [threads EXCEPT ![t] = [NewThread EXCEPT !.pc = "done"]]
    ELSE [threads EXCEPT ![t].pc = "loop", ![t].item = NoItem,
                         ![t].cb = "none"]

\* What the loop does when the callback has ended: "except Exception" logs
\* and the loop goes on, whether or not the callback raised.
AfterCallback(t, raises) ==
    [threads EXCEPT ![t].pc = "loop", ![t].item = NoItem, ![t].cb = "none",
                    ![t].raised = @ \/ raises]

\* the user callback returns or raises
callback_return(t, raises) ==
    /\ threads[t].pc = "callback"
    /\ threads' = AfterCallback(t, raises)
    /\ UNCHANGED << queue, threadFrame >>

\* "except queue_mod.Empty:" first tests: the stop flag, then
\* "self._proc is None"
on_empty(t) ==
    /\ threads[t].pc = "empty"
    /\ IF stop_event \/ proc = None
       THEN ThreadEnd(t)
       ELSE threads' = [threads EXCEPT ![t].pc = "alive"]
    /\ UNCHANGED << queue, threadFrame >>

\* mutant of GivesUp: the loop polls for as long as the worker is alive
NeverGivesUp(empties) == FALSE

\* consecutive_empty += 1; "if consecutive_empty >= MAX_EMPTY_POLLS: break"
GivesUp(empties) == empties + 1 >= MAX_EMPTY_POLLS

\* "... or not self._proc.is_alive()", then the empty-poll counter.
\* self._proc is read a second time here: a handle set to None since the
\* first read raises AttributeError, which nothing in the loop catches.
on_empty_alive(t) ==
    /\ threads[t].pc = "alive"
    /\ IF proc = None
       THEN ThreadEnd(t)
       ELSE IF ~is_alive(proc)
            THEN ThreadEnd(t)
            ELSE IF GivesUp(threads[t].empties)
                 THEN ThreadEnd(t)
                 ELSE threads' = [threads EXCEPT ![t].pc = "loop",
                                     ![t].empties = @ + 1]
    /\ UNCHANGED << queue, threadFrame >>

\* ---------------------------------------------- the worker, seen from outside
workerFrame == << apiVars, proc, queue_thread, stop_event, threads, nStarted,
                  quiet, nTicks, configVars >>

Event(w, kind) == [kind |-> kind, gen |-> w, n |-> nPut + 1]

\* the callbacks _client_process hands to the client (session_cb and
\* error_cb always, the other two when enabled)
WorkerCallbacks ==
    {"session_start", "error"}
       \cup (IF enable_video THEN {"video"} ELSE {})
       \cup (IF enable_application THEN {"application_data"} ELSE {})

\* video_cb / application_data_cb / session_cb / error_cb of the worker,
\* and the Initialization error of "except Exception":
\* queue.put({"kind": kind, **payload})
queue_put(w, kind) ==
    /\ is_alive(w)
    /\ nPut < limits.events
    /\ kind \in WorkerCallbacks
    /\ queue' = Append(queue, Event(w, kind))
    /\ nPut' = nPut + 1
    /\ UNCHANGED << workers, workerFrame >>

\* the worker process ends by itself (client.start() returned, sys.exit)
process_exit(w) ==
    /\ is_alive(w)
    /\ workers' = [workers EXCEPT ![w].pc = "dead"]
    /\ UNCHANGED << queue, nPut, workerFrame >>

\* -------------------------------------------------------------------- time
\* a step that takes no time is pending
Urgent ==
    \/ \E c \in callers : \/ apiPc[c] # "idle" /\ ~Joining(c)
                          \/ Joining(c) /\ JoinReturned(c)
    \/ \E t \in Ids : \/ threads[t].pc \in {"loop", "dispatch", "empty", "alive"}
                      \/ threads[t].pc = "get" /\ queue # << >>

\* somebody is waiting for time to pass
Waiting ==
    \/ \E c \in callers : Joining(c)
    \/ \E t \in Ids : threads[t].pc = "get"

\* One QUEUE_POLL_INTERVAL passes: every blocked queue.get raises Empty and
\* the joins advance.
Tick ==
    /\ ~Urgent
    /\ Waiting
    /\ nTicks < limits.ticks
    /\ nTicks' = nTicks + 1
    /\ threads' = [t \in Ids |->
          IF threads[t].pc = "get" THEN [threads[t] EXCEPT !.pc = "empty"]
          ELSE threads[t]]
    /\ joinTicks' = [c \in CallerIds |->
          IF c \in callers /\ Joining(c)
          THEN joinTicks[c] + 1 ELSE joinTicks[c]]
    /\ UNCHANGED << apiPc, joinTarget, proc, queue_thread, stop_event, queue,
                    workers, nStarted, nPut, quiet, configVars >>

\* ----------------------------------------------------------- specification
Next ==
    \/ \E c \in CallerIds, op \in StartOps : start(c, op)
    \/ \E c \in CallerIds : raised(c)
    \/ \E c \in CallerIds, op \in StopOps : stop_begin(c, op)
    \/ \E c \in CallerIds : stop_terminate(c)
    \/ \E c \in CallerIds : stop_finish(c)
    \/ \E t \in Ids : loop_test(t)
    \/ \E t \in Ids : queue_get(t)
    \/ \E t \in Ids : dispatch(t)
    \/ \E t \in Ids, raises \in BOOLEAN : callback_return(t, raises)
    \/ \E t \in Ids : on_empty(t)
    \/ \E t \in Ids : on_empty_alive(t)
    \/ \E w \in Ids, kind \in Kinds : queue_put(w, kind)
    \/ \E w \in Ids : process_exit(w)
    \/ Tick

Spec == Init /\ [][Next]_vars

\* Spec with one more start(): the retriever is started again after a
\* stop() or after the worker has ended.
InitRestart ==
    /\ InitRetriever
    /\ client = NoClient
    /\ rx = Absent
    /\ session = Absent
    /\ callers = {1}
    /\ limits = [starts |-> MaxCycles + 1, events |-> MaxEvents,
                 ticks |-> MaxTicks]

SpecRestart == InitRestart /\ [][Next]_vars

\* The start/stop cycles of SpecRestart with a single event, which leaves
\* room for one more cycle.
InitCycles ==
    /\ InitRetriever
    /\ client = NoClient
    /\ rx = Absent
    /\ session = Absent
    /\ callers = {1}
    /\ limits = [starts |-> MaxCycles + 1, events |-> 1, ticks |-> MaxTicks]

SpecCycles == InitCycles /\ [][Next]_vars

\* One start, a horizon long enough for MAX_EMPTY_POLLS empty polls.
InitPoll ==
    /\ InitRetriever
    /\ client = NoClient
    /\ rx = Absent
    /\ session = Absent
    /\ callers = {1}
    /\ limits = [starts |-> 1, events |-> MaxEvents, ticks |-> PollTicks]

SpecPoll == InitPoll /\ [][Next]_vars

\* Spec with two threads of the application calling the API at once
InitConcurrent ==
    /\ InitRetriever
    /\ client = NoClient
    /\ rx = Absent
    /\ session = Absent
    /\ callers = CallerIds
    /\ limits = [starts |-> MaxCycles, events |-> 1, ticks |-> MaxTicks]

SpecConcurrent == InitConcurrent /\ [][Next]_vars

\* SpecPoll with a queue whose get can raise EOFError or OSError
NextQueueError ==
    \/ Next
    \/ \E t \in Ids : queue_error(t)

SpecQueueError == InitPoll /\ [][NextQueueError]_vars

\* ============================================================================
\* _client_process and CombinedRTSPClient
\* ============================================================================
harnessVars == << callers, apiPc, joinTicks, joinTarget, proc, queue_thread,
                  stop_event, callbacks, video_processing_fn, workers,
                  threads, limits, nStarted, nPut, nTicks, quiet, rx,
                  session >>

\* connection_timeout values, in seconds (None is 0: "if self._timeout:")
Timeouts == 0..MaxTimeout

\* the process as mp.Process.start() leaves it, before _client_process runs
SpawnedClient(timeout) ==
    [pc |-> "spawned", timeout |-> timeout, timer |-> "none", elapsed |-> 0,
     loop |-> FALSE, pipeline |-> "NULL", err_cnt |-> 0, failed |-> FALSE,
     exitcode |-> "None"]

InitWorker ==
    /\ InitRetriever
    /\ callers = {}
    /\ limits = [starts |-> 0, events |-> MaxEvents, ticks |-> 0]
    /\ \E timeout \in Timeouts : client = SpawnedClient(timeout)
    /\ rx = Absent
    /\ session = Absent

\* CombinedRTSPClient.stop(): pipeline to NULL, loop.quit() if it runs
ClientStop(cl) == [cl EXCEPT !.pipeline = "NULL", !.loop = FALSE]

\* _report_error: "self.err_cnt += 1", then error_cb(payload), which is
\* error_cb of _client_process: queue.put({"kind": "error", **payload})
ErrorPayload(cl, error_type) ==
    [kind |-> "error", error_type |-> error_type,
     error_count |-> cl.err_cnt + 1]

Counted(cl) == [cl EXCEPT !.err_cnt = @ + 1]

\* the event of "except Exception as exc:" in _client_process
InitializationError ==
    [kind |-> "error", error_type |-> "Initialization", error_count |-> None]

\* ensure_gi_ready() and CombinedRTSPClient(...): returns or raises
client_create(ok) ==
    /\ client.pc = "spawned"
    /\ client' = IF ok THEN [client EXCEPT !.pc = "created"]
                 ELSE [client EXCEPT !.pc = "except", !.failed = TRUE]
    /\ UNCHANGED << queue, harnessVars >>

\* client.start() up to loop.run(): set_state(PLAYING) fails and start()
\* raises RuntimeError, or the timer is started (if a timeout is set) and
\* the main loop runs.
client_start(ok) ==
    /\ client.pc = "created"
    /\ client' = IF ok
                 THEN [client EXCEPT !.pc = "running", !.loop = TRUE,
                          !.pipeline = "PLAYING",
                          !.timer = IF client.timeout # 0 THEN "pending"
                                    ELSE "none"]
                 ELSE [client EXCEPT !.pc = "except", !.failed = TRUE]
    /\ UNCHANGED << queue, harnessVars >>

BusMessages == {"EOS", "ERROR"}

\* what _on_bus_message does to the client for an ERROR message
OnBusError(cl) == Counted(cl)

\* _on_bus_message: EOS stops the client; ERROR is reported
on_bus_message(msg) ==
    /\ client.pc = "running"
    /\ client.loop
    /\ msg \in BusMessages
    /\ IF msg = "EOS"
       THEN /\ client' = ClientStop(client)
            /\ UNCHANGED queue
       ELSE /\ Len(queue) < limits.events
            /\ client' = OnBusError(client)
            /\ queue' = Append(queue, ErrorPayload(client, "GStreamer Error"))
    /\ UNCHANGED harnessVars

\* _on_new_video_sample / _on_new_application_data_sample: a video frame
\* is handed to video_cb.  An application-data sample first cancels the
\* timer ("if self._timer is not None: self._timer.cancel()"); it is handed
\* to application_data_cb when it completes a message (emits) and else only
\* accumulated.
on_new_sample(kind, emits) ==
    /\ client.pc = "running"
    /\ client.loop
    /\ \/ kind = "video" /\ enable_video /\ emits
       \/ kind = "application_data" /\ enable_application
    /\ client' = IF kind = "application_data"
                       /\ client.timer \notin {"none", "reporting"}
                 THEN [client EXCEPT !.timer = "cancelled"]
                 ELSE client
    /\ IF emits
       THEN /\ Len(queue) < limits.events
            /\ queue' = Append(queue, [kind |-> kind])
       ELSE UNCHANGED queue
    /\ UNCHANGED harnessVars

\* start(): "except Exception as e" around loop.run():
\* _report_error("Main Loop", ...), self.stop()
main_loop_error ==
    /\ client.pc = "running"
    /\ client.loop
    /\ Len(queue) < limits.events
    /\ client' = ClientStop(Counted(client))
    /\ queue' = Append(queue, ErrorPayload(client, "Main Loop"))
    /\ UNCHANGED harnessVars

\* parent_monitor_thread: the parent is gone, client.stop()
parent_monitor ==
    /\ client.pc = "running"
    /\ client.loop
    /\ client' = ClientStop(client)
    /\ UNCHANGED << queue, harnessVars >>

\* one second of the threading.Timer passes
timer_elapse ==
    /\ client.timer = "pending"
    /\ client.elapsed < client.timeout
    /\ client.pc \in {"running", "returned"}
    /\ client' = [client EXCEPT !.elapsed = @ + 1]
    /\ UNCHANGED << queue, harnessVars >>

\* _timeout_handler, in the Timer thread, up to logger.error(...) of
\* _report_error: "self.err_cnt += 1" is done, the payload is not built yet.
\* The main loop and its bus messages run in another thread.
timeout_handler ==
    /\ client.timer = "pending"
    /\ client.elapsed = client.timeout
    /\ client.pc \in {"running", "returned"}
    /\ client' = [Counted(client) EXCEPT !.timer = "reporting"]
    /\ UNCHANGED << queue, harnessVars >>

\* error_payload of _report_error: "'error_count': self.err_cnt" is read
\* when the payload is built
error_payload(cl, error_type) ==
    [kind |-> "error", error_type |-> error_type, error_count |-> cl.err_cnt]

\* the rest of _timeout_handler: error_cb(error_payload), self.stop()
timeout_report ==
    /\ client.timer = "reporting"
    /\ client.pc \in {"running", "returned"}
    /\ Len(queue) < limits.events
    /\ client' = [ClientStop(client) EXCEPT !.timer = "fired"]
    /\ queue' = Append(queue, error_payload(client, "Timeout"))
    /\ UNCHANGED harnessVars

\* loop.run() has returned, start() returns; "finally:
\* client_should_stop.set()" and _client_process returns
start_returns ==
    /\ client.pc = "running"
    /\ ~client.loop
    /\ client' = [client EXCEPT !.pc = "returned"]
    /\ UNCHANGED << queue, harnessVars >>

\* the process ends once its non-daemon threads (the Timer) have ended
process_end ==
    /\ client.pc = "returned"
    /\ client.timer \notin {"pending", "reporting"}
    /\ client' = [client EXCEPT !.pc = "exited", !.exitcode = "0"]
    /\ UNCHANGED << queue, harnessVars >>

\* mutant of AfterFailure: the handler exits without queueing the event
Unreported(q) == q

\* what "except Exception as exc:" leaves in the queue
AfterFailure(q) == Append(q, InitializationError)

\* "except Exception as exc:" queue.put({"kind": "error",
\* "error_type": "Initialization", ...})
report_initialization ==
    /\ client.pc = "except"
    /\ queue' = AfterFailure(queue)
    /\ client' = [client EXCEPT !.pc = "reported"]
    /\ UNCHANGED harnessVars

\* sys.exit(1)
sys_exit ==
    /\ client.pc = "reported"
    /\ client' = [client EXCEPT !.pc = "exited", !.exitcode = "1"]
    /\ UNCHANGED << queue, harnessVars >>

\* the parent's stop(): self._proc.terminate() (SIGTERM)
terminate ==
    /\ client.pc \notin {"none", "exited"}
    /\ client' = [client EXCEPT !.pc = "exited", !.exitcode = "-15",
                                !.loop = FALSE]
    /\ UNCHANGED << queue, harnessVars >>

NextWorker ==
    \/ \E ok \in BOOLEAN : client_create(ok)
    \/ \E ok \in BOOLEAN : client_start(ok)
    \/ \E msg \in BusMessages : on_bus_message(msg)
    \/ \E kind \in {"video", "application_data"}, emits \in BOOLEAN :
          on_new_sample(kind, emits)
    \/ main_loop_error
    \/ parent_monitor
    \/ timer_elapse
    \/ timeout_handler
    \/ timeout_report
    \/ start_returns
    \/ process_end
    \/ report_initialization
    \/ sys_exit
    \/ terminate

SpecWorker == InitWorker /\ [][NextWorker]_vars

\* ============================================================================
\* The application-data parsers: _on_new_application_data_sample of
\* CombinedRTSPClient (and of SceneMetadataClient, the same code) and
\* MetadataHandler.handle_packet
\* ============================================================================
parserFrame == << retrieverVars, apiVars, countVars, callers, callbacks,
                  video_processing_fn, limits, quiet, client, session >>

\* payload bytes: '<', 'a', and 0xFF, which no UTF-8 text contains
PayloadBytes == {60, 97, 255}

\* an RTP packet as it arrives: V=2, the extension flag and the CSRC count
\* in byte 0, the marker bit and payload type 96 in byte 1, ten more header
\* bytes, the CSRC list, the header extension (if any), the payload
RtpPacket(cc, ext, m, payload) ==
    << 128 + (IF ext = << >> THEN 0 ELSE 16) + cc,
       (IF m THEN 128 ELSE 0) + 96 >> \o [i \in 1..10 |-> 0]
        \o [i \in 1..(4 * cc) |-> 7] \o ext \o payload

\* whole packets with no or one CSRC and a payload of no or one byte, whole
\* packets with a header extension of one word, and packets cut off after
\* 5 and after 14 bytes
Packets ==
    LET whole == { RtpPacket(cc, << >>, m, p) :
                     cc \in {0, 1}, m \in BOOLEAN,
                     p \in {<< >>} \cup {<<b>> : b \in PayloadBytes} }
                 \cup { RtpPacket(0, <<171, 172, 0, 1, 9, 9, 9, 9>>, m, p) :
                          m \in BOOLEAN, p \in {<< >>, <<60>>} }
    IN  whole \cup UNION { { SubSeq(raw, 1, n) :
                               n \in {5, 14} \cap (1..Len(raw)) } :
                           raw \in whole }

\* mutant of header_length: the CSRC list is taken for payload
FixedHeader(raw) == 12

\* csrc = raw[0] & 0x0F; hdr_len = 12 + 4 * csrc
header_length(raw) == 12 + 4 * (raw[1] % 16)

\* marker = bool(raw[1] & 0x80)
marker(raw) == (raw[2] \div 128) % 2 = 1

\* self._xml_acc.find(b"<"), counted from 1 (0: not found)
find(acc) ==
    IF \E i \in 1..Len(acc) : acc[i] = 60
    THEN CHOOSE i \in 1..Len(acc) :
             acc[i] = 60 /\ \A j \in 1..(i - 1) : acc[j] # 60
    ELSE 0

\* bytes.decode("utf-8") raises UnicodeDecodeError on a byte that is no
\* UTF-8; the text of ASCII bytes is their code points
decodes(data) == \A i \in 1..Len(data) : data[i] < 128

\* mutant of Cleared: the accumulator is kept
NotCleared(acc) == acc

\* self._xml_acc = b""
Cleared(acc) == << >>

\* a new parser of either class (pc names the one that is fed)
NewParsers(pc) ==
    [pc |-> pc, fed |-> 0,
     xml_acc |-> << >>, res |-> "none", text |-> << >>, err_cnt |-> 0,
     xml_cnt |-> 0, own |-> << >>, ext |-> FALSE,
     xml_buffer |-> << >>, processed |-> << >>]

InitReassembler ==
    /\ InitRetriever
    /\ callers = {}
    /\ limits = [starts |-> 0, events |-> 0, ticks |-> 0]
    /\ client = NoClient
    /\ session = Absent
    /\ \E pc \in {"grabber", "handler"} : rx = NewParsers(pc)

\* CombinedRTSPClient._on_new_application_data_sample on a mapped buffer.
\* res is what the call reported (an error type, a message, or nothing),
\* text the payload handed to application_data_cb; own is history: the
\* payloads of the whole packets since the last packet with the marker bit,
\* ext whether a packet with the extension flag is among them.  raises: application_data_cb raises when it is called.
on_new_application_data_sample(raw, raises) ==
    /\ rx.pc = "grabber"
    /\ rx.fed < MaxPackets
    /\ LET r == [rx EXCEPT !.fed = @ + 1, !.text = << >>]
           payload == SubSeq(raw, header_length(raw) + 1, Len(raw))
           acc == rx.xml_acc \o payload
           lt == find(acc)
           done == [r EXCEPT !.xml_acc = Cleared(acc), !.own = << >>,
                             !.ext = FALSE]
       IN  rx' = IF Len(raw) < 12 \/ Len(raw) < header_length(raw)
                 THEN [r EXCEPT !.err_cnt = @ + 1, !.res = "RTP Header"]
                 ELSE IF ~marker(raw)
                 THEN [r EXCEPT !.xml_acc = acc, !.res = "none",
                                !.own = @ \o payload,
                                !.ext = @ \/ (raw[1] \div 16) % 2 = 1]
                 ELSE IF lt = 0
                 THEN [done EXCEPT !.err_cnt = @ + 1, !.res = "XML Parse"]
                 ELSE IF ~decodes(SubSeq(acc, lt, Len(acc)))
                 THEN [done EXCEPT !.err_cnt = @ + 1, !.res = "XML Decode"]
                 ELSE [done EXCEPT !.xml_cnt = @ + 1, !.res = "message",
                                   !.text = SubSeq(acc, lt, Len(acc)),
                                   !.err_cnt = IF raises THEN @ + 1 ELSE @]
    /\ UNCHANGED parserFrame

\* MetadataHandler.handle_packet; processed is what process_xml was last
\* called with.  raises: process_xml (a hook of subclasses) raises; the
\* exception leaves handle_packet and ends receive_data.
handle_packet(packet, raises) ==
    /\ rx.pc = "handler"
    /\ rx.fed < MaxPackets
    /\ LET r == [rx EXCEPT !.fed = @ + 1]
           xml_buffer == rx.xml_buffer \o SubSeq(packet, 13, Len(packet))
       IN  rx' = IF Len(packet) < 12
                 THEN r
                 ELSE IF (packet[2] \div 128) % 2 # 1
                 THEN [r EXCEPT !.xml_buffer = xml_buffer]
                 ELSE IF raises
                 THEN [r EXCEPT !.processed = xml_buffer,
                                !.xml_buffer = xml_buffer,
                                !.pc = "handler raised"]
                 ELSE [r EXCEPT !.processed = xml_buffer,
                                !.xml_buffer = << >>]
    /\ UNCHANGED parserFrame

NextReassembler ==
    \/ \E raw \in Packets, raises \in BOOLEAN :
          on_new_application_data_sample(raw, raises)
    \/ \E packet \in Packets, raises \in BOOLEAN :
          handle_packet(packet, raises)

SpecReassembler == InitReassembler /\ [][NextReassembler]_vars

\* ============================================================================
\* RTSPProtocolClient and run_metadata_client (metadata_raw.py); the server is
\* the responses it may give
\* ============================================================================
sessionFrame == << retrieverVars, apiVars, countVars, callers, callbacks,
                   video_processing_fn, limits, quiet, client, rx >>

\* the first response to a request: its status line, and whether it carries
\* a "WWW-Authenticate: Digest ..." header
FirstResponses == [status : {200, 401}, digest : BOOLEAN]

\* the lines of an SDP body that the track discovery tells apart
SdpLines ==
    { [tag |-> "m=", value |-> v] : v \in {"application", "Application",
                                           "video"} }
    \cup { [tag |-> "a=control:", value |-> v] : v \in {"", "A", "B"} }
    \cup { [tag |-> "other", value |-> ""] }

\* SDP bodies: resp[sdp_start:].splitlines() without the lines before the
\* first m= or a= line
Sdps == UNION { [1..n -> SdpLines] : n \in 0..MaxSdpLines }

\* the response to DESCRIBE: v tells whether the response holds "v="
DescribeResponses(bodies) ==
    { [status |-> s, v |-> TRUE, sdp |-> d] : s \in {200, 401}, d \in bodies }
    \cup { [status |-> s, v |-> FALSE, sdp |-> << >>] : s \in {200, 401} }

\* the response to SETUP: session is what follows "Session: " on its line,
\* character by character (<< >>: the response has no such header)
SetupResponses ==
    [status : {200, 401},
     session : {<< >>, << "7" >>, << "7", ";", "t" >>, << ";", "t" >>}]

\* mutant of session_match: the whole header value is taken
Verbatim(value) == value

\* group(1) of re.search(r"Session: ([^;\r\n]+)", resp): the characters
\* before the first ";" (<< >>: no match)
RECURSIVE session_match(_)
session_match(value) ==
    IF value = << >> \/ Head(value) = ";" THEN << >>
    ELSE << Head(value) >> \o session_match(Tail(value))

\* the response to PLAY and to TEARDOWN
PlainResponses == [status : {200, 401}]

\* what the recv(4096) of send_request returns as the response to the
\* authenticated PLAY: the response, and ahead bytes of the interleaved
\* stream that had arrived with it (none, or the "$\x00" of a first frame)
PlayResponses == [status : {200, 401}, ahead : {0, 2}]

\* the client after __init__ has connected its socket.  pc is where
\* run_metadata_client stands ("api": the methods are called freely, as the
\* tests do); last is the last call, sent the methods written to the socket
\* so far, released how often the socket's descriptor was closed.
\* session_id None is the empty sequence.  ahead counts the stream bytes in
\* the string that play() returned, lost those that were taken off the
\* socket and are in no buffer.
NewSession(pc) ==
    [pc |-> pc, calls |-> 0, sock |-> "open", released |-> 0,
     cseq |-> 1, session_id |-> << >>, sdp |-> << >>,
     track_control |-> "None", sent |-> {}, ahead |-> 0, lost |-> 0,
     last |-> [method |-> "none", written |-> << >>, status |-> 0,
               first |-> 0, error |-> "none"]]

InitSession ==
    /\ InitRetriever
    /\ callers = {}
    /\ limits = [starts |-> 0, events |-> 0, ticks |-> 0]
    /\ client = NoClient
    /\ rx = Absent
    /\ \E pc \in {"api", "describe"} : session = NewSession(pc)

\* _build_request: "CSeq: {self.cseq}"; the Session header is added "if
\* self.session_id"
build_request(method, auth) ==
    [method |-> method, cseq |-> session.cseq,
     session |-> session.session_id # << >>,
     session_header |-> session.session_id, auth |-> auth]

\* send_rtsp with handle_401: what it writes, and what it raises.  Writing
\* to a closed socket raises OSError; handle_401 raises when the first
\* response has no Digest challenge, whatever its status.
send_rtsp(method, r1) ==
    IF session.sock = "closed"
    THEN [written |-> << >>, error |-> "OSError"]
    ELSE IF ~r1.digest
    THEN [written |-> << build_request(method, FALSE) >>,
          error |-> "Missing WWW-Authenticate header with digest in 401 response."]
    ELSE [written |-> << build_request(method, FALSE),
                         build_request(method, TRUE) >>,
          error |-> "none"]

\* mutant of Failed: the status of the response is not looked at
NeverFailed(resp) == FALSE

\* "200 OK" not in resp
Failed(resp) == resp.status # 200

\* mutant of CanCall: run_metadata_client calls the methods in any order
AnyOrder(method) ==
    session.calls < MaxCalls /\ session.pc \notin {"none", "stopped"}

\* a method may be called: by a free caller, or when run_metadata_client
\* has come to it
CanCall(method) ==
    \/ session.pc = "api" /\ session.calls < MaxCalls
    \/ session.pc = method

\* the client after a call: s is the client with what the method assigned,
\* next where run_metadata_client goes on when nothing was raised
AfterCall(s, method, r1, r2, rtsp, error, next) ==
    [s EXCEPT
       !.cseq = IF rtsp.error = "none" THEN @ + 1 ELSE @,
       !.calls = IF session.pc = "api" THEN @ + 1 ELSE @,
       !.pc = IF session.pc = "api" THEN "api"
              ELSE IF error = "none" THEN next ELSE "teardown",
       !.sent = IF rtsp.written = << >> THEN @ ELSE @ \cup {method},
       !.last = [method |-> method, written |-> rtsp.written,
                 status |-> IF Len(rtsp.written) = 2 THEN r2.status
                            ELSE IF Len(rtsp.written) = 1 THEN r1.status
                            ELSE 0,
                 first |-> IF rtsp.written = << >> THEN 0 ELSE r1.status,
                 error |-> error]]

\* RTSPProtocolClient.describe
describe(r1, r2) ==
    /\ CanCall("describe")
    /\ LET rtsp == send_rtsp("DESCRIBE", r1)
           error == IF rtsp.error # "none" THEN rtsp.error
                    ELSE IF Failed(r2) THEN "DESCRIBE failed."
                    ELSE IF ~r2.v THEN "SDP not found in response."
                    ELSE "none"
           s == [session EXCEPT
                   !.sdp = IF error = "none" /\ session.pc # "api"
                           THEN r2.sdp ELSE @]
       IN  session' = AfterCall(s, "DESCRIBE", r1, r2, rtsp, error,
                                "discover")
    /\ UNCHANGED sessionFrame

\* mutant of IsApplication: a control line of any media is taken
AnyMedia(current_media) == TRUE

\* current_media == "application"
IsApplication(current_media) == current_media = "application"

\* str.lower() of the media names
lower(media) == IF media = "Application" THEN "application" ELSE media

\* the loop over sdp.splitlines() of run_metadata_client, from line i on;
\* "None" is the track_control it starts with
RECURSIVE find_track(_, _, _)
find_track(sdp, i, current_media) ==
    IF i > Len(sdp) THEN "None"
    ELSE IF sdp[i].tag = "m="
    THEN find_track(sdp, i + 1, lower(sdp[i].value))
    ELSE IF sdp[i].tag = "a=control:" /\ IsApplication(current_media)
    THEN sdp[i].value
    ELSE find_track(sdp, i + 1, current_media)

\* run_metadata_client: the track discovery between describe() and setup()
discover_track ==
    /\ session.pc = "discover"
    /\ LET track_control == find_track(session.sdp, 1, "None")
           found == track_control \notin {"None", ""}
       IN  session' = [session EXCEPT
              !.track_control = track_control,
              !.pc = IF found THEN "setup" ELSE "teardown",
              !.last = [method |-> "discover", written |-> << >>,
                        status |-> 0, first |-> 0,
                        error |-> IF found THEN "none"
                                  ELSE "Metadata track control URL not found in SDP."]]
    /\ UNCHANGED sessionFrame

\* RTSPProtocolClient.setup
setup(r1, r2) ==
    /\ CanCall("setup")
    /\ LET rtsp == send_rtsp("SETUP", r1)
           error == IF rtsp.error # "none" THEN rtsp.error
                    ELSE IF Failed(r2) THEN "SETUP failed."
                    ELSE IF session_match(r2.session) = << >>
                    THEN "Session ID not found in SETUP response."
                    ELSE "none"
           s == [session EXCEPT
                   !.session_id = IF error = "none"
                                  THEN session_match(r2.session) ELSE @]
       IN  session' = AfterCall(s, "SETUP", r1, r2, rtsp, error, "play")
    /\ UNCHANGED sessionFrame

\* RTSPProtocolClient.play
play(r1, r2) ==
    /\ CanCall("play")
    /\ LET rtsp == send_rtsp("PLAY", r1)
           error == IF rtsp.error # "none" THEN rtsp.error
                    ELSE IF Failed(r2) THEN "PLAY failed."
                    ELSE "none"
           s == [session EXCEPT
                   !.ahead = IF rtsp.error = "none" THEN r2.ahead ELSE @]
       IN  session' = AfterCall(s, "PLAY", r1, r2, rtsp, error, "receive")
    /\ UNCHANGED sessionFrame

\* RTSPProtocolClient.receive_data starts with 'buffer = b""', while the
\* return value of play() was dropped, and returns (the server closed the
\* connection, a socket error, an interrupt)
receive_data ==
    /\ session.pc = "receive"
    /\ session' = [session EXCEPT !.pc = "teardown", !.ahead = 0,
                                  !.lost = session.ahead]
    /\ UNCHANGED sessionFrame

\* mutant of Closed: teardown() without its finally clause
LeftOpen(sock) == sock

\* self.sock.close()
Closed(sock) == "closed"

\* RTSPProtocolClient.teardown: what send_rtsp raises and a failed response
\* are logged; socket.close() releases the descriptor unless it was closed
teardown(r1, r2) ==
    /\ CanCall("teardown")
    /\ LET rtsp == send_rtsp("TEARDOWN", r1)
           s == [session EXCEPT
                   !.sock = Closed(@),
                   !.released = IF session.sock = Closed(session.sock)
                                THEN @ ELSE @ + 1]
       IN  session' = AfterCall(s, "TEARDOWN", r1, r2, rtsp, "none",
                                "stopped")
    /\ UNCHANGED sessionFrame

\* a free caller does not look into the SDP it gets
NextSession ==
    \/ /\ CanCall("describe")
       /\ \E r1 \in FirstResponses,
             r2 \in DescribeResponses(IF session.pc = "api"
                                      THEN {<< >>} ELSE Sdps) :
             describe(r1, r2)
    \/ discover_track
    \/ \E r1 \in FirstResponses, r2 \in SetupResponses : setup(r1, r2)
    \/ \E r1 \in FirstResponses, r2 \in PlayResponses : play(r1, r2)
    \/ receive_data
    \/ \E r1 \in FirstResponses, r2 \in PlainResponses : teardown(r1, r2)

SpecSession == InitSession /\ [][NextSession]_vars

\* ============================================================================
\* CombinedRTSPClient._rtp_probe: the capture time of the ONVIF header
\* extension (RTSPClient._convert_ntp_to_unix is the same expression)
\* ============================================================================
\* int.from_bytes(b, 'big') of four bytes, as its two 16-bit halves
from_bytes(b) == << b[1] * 256 + b[2], b[3] * 256 + b[4] >>

\* mutant of since_epoch: the borrow of the subtraction is lost
BorrowLost(n_sec) ==
    (n_sec[1] - 33706) * 65536 + ((n_sec[2] - 32384) % 65536)

\* n_sec - 2208988800 (0x83AA 7E80), subtracted by halves
since_epoch(n_sec) ==
    LET low == n_sec[2] - 32384
    IN  (n_sec[1] - 33706 - (IF low < 0 THEN 1 ELSE 0)) * 65536
            + (IF low < 0 THEN low + 65536 ELSE low)

\* n_sec - 2208988800 + n_frac / (1 << 32) as a float: for a time between
\* 2^30 and 2^31 seconds the sum is rounded (to nearest, ties to even) to a
\* multiple of 2^-22; frac counts these
unix_ts(n_sec, n_frac) ==
    LET q == n_frac[1] * 64 + n_frac[2] \div 1024
        r == n_frac[2] % 1024
        f == IF r > 512 \/ (r = 512 /\ q % 2 = 1) THEN q + 1 ELSE q
    IN  IF f = 4194304
        THEN [sec |-> since_epoch(n_sec) + 1, frac |-> 0]
        ELSE [sec |-> since_epoch(n_sec), frac |-> f]

\* the extension data of ntp_seconds = 3871129600, ntp_fraction = 0, no
\* flag set, CSeq 0
ExamplePayload == << 230, 188, 192, 0, 0, 0, 0, 0, 0, 0, 0, 0 >>

\* extension data: NTP seconds and fraction of times in 2022
\* with an empty flags word; one time with the flags words that set each
\* flag alone, all, or bits next to them; and data of 0, 8 and 11 bytes
ProbePayloads ==
    { << s0, s1, s2, s3, f0, f1, f2, f3, 0, 0, 0, 0 >> :
        s0 \in {230}, s1 \in {0, 188}, s2 \in {0, 126, 192},
        s3 \in {0, 128}, f0 \in {0, 255}, f1 \in {255},
        f2 \in {0, 2, 6, 255}, f3 \in {0, 1, 255} }
      \cup { SubSeq(ExamplePayload, 1, 8) \o << b8, 0, b10, b11 >> :
                b8 \in {8, 15, 16, 32, 64, 128, 240}, b10 \in {0, 1},
                b11 \in {0, 7, 255} }
      \cup { SubSeq(ExamplePayload, 1, n) : n \in {0, 8, 11} }

\* the classes with an _rtp_probe of their own
ProbeClasses == {"CombinedRTSPClient", "RTSPClient"}

\* latest_rtp_data of time 0 with no flag; unix_ts stands for human_time
\* and is kept for times from 1970 on only
NoRtpData ==
    [ntp_seconds |-> << 0, 0 >>, ntp_fraction |-> << 0, 0 >>,
     unix_ts |-> [sec |-> 0, frac |-> 0],
     C |-> 0, E |-> 0, D |-> 0, T |-> 0, CSeq |-> 0]

InitProbe ==
    /\ InitRetriever
    /\ callers = {}
    /\ limits = [starts |-> 0, events |-> 0, ticks |-> 0]
    /\ rx = Absent
    /\ session = Absent
    /\ \E cls \in ProbeClasses :
          client = [pc |-> "probe", cls |-> cls, probed |-> FALSE,
                    err_cnt |-> 0, latest_rtp_data |-> NoRtpData]

\* b[0:n] of the slices the probe takes: a slice of data that is too short
\* is shorter, and int.from_bytes of a short slice reads it as if zero
\* bytes stood before it
slice(b, from, n) ==
    LET got == SubSeq(b, from, IF Len(b) < from + n - 1 THEN Len(b)
                               ELSE from + n - 1)
    IN  [i \in 1..(n - Len(got)) |-> 0] \o got

\* the extension data is taken: CombinedRTSPClient has "if not payload or
\* len(payload) < 12: return", RTSPClient has "if ext_bytes and
\* len(ext_bytes) < 12: return"
taken(cls, payload) ==
    IF cls = "RTSPClient" THEN ~(payload # << >> /\ Len(payload) < 12)
    ELSE ~(payload = << >> \/ Len(payload) < 12)

\* _rtp_probe on a buffer: RTPBuffer.map fails (reported as an error by
\* CombinedRTSPClient, logged by RTSPClient), or the buffer has no header
\* extension (ext_id None) or one with the id ext_id and the data payload
rtp_probe(mapped, ext_id, payload) ==
    /\ client.pc = "probe"
    /\ mapped \/ client.err_cnt < MaxEvents
    /\ client' =
         IF ~mapped
         THEN IF client.cls = "CombinedRTSPClient" THEN Counted(client)
              ELSE client
         ELSE IF ext_id = None \/ ext_id # 43948
                 \/ ~taken(client.cls, payload)
         THEN client
         ELSE LET n_sec == from_bytes(slice(payload, 1, 4))
                  n_frac == from_bytes(slice(payload, 5, 4))
                  flags == from_bytes(slice(payload, 9, 4))
                  d == [ntp_seconds |-> n_sec, ntp_fraction |-> n_frac,
                        C |-> (flags[1] \div 32768) % 2,
                        E |-> (flags[1] \div 16384) % 2,
                        D |-> (flags[1] \div 8192) % 2,
                        T |-> (flags[1] \div 4096) % 2,
                        CSeq |-> flags[2] % 256]
              IN  [client EXCEPT
                     !.probed = TRUE,
                     !.latest_rtp_data =
                        IF n_sec[1] < 33707 THEN d
                        ELSE d @@ [unix_ts |-> unix_ts(n_sec, n_frac)]]
    /\ UNCHANGED << queue, harnessVars >>

NextProbe ==
    \/ \E payload \in ProbePayloads : rtp_probe(TRUE, 43948, payload)
    \/ \E mapped \in BOOLEAN, ext_id \in {None, 43948, 43949} :
          rtp_probe(mapped, ext_id, ExamplePayload)

SpecProbe == InitProbe /\ [][NextProbe]_vars

\* ============================================================================
\* RTSPProtocolClient.receive_data: the interleaved receive loop
\* ============================================================================
\* the most items (framed packets and text messages) the server sends
MaxItems == 3

\* "handler_map = {0: MetadataHandler()}": the registered channels
handler_map == {0}

\* what the server sends: '$'-framed packets of channel 0 whose payload is
\* empty or the byte '$', one of channel 1, and the text message "R\r\n\r\n"
StreamItems ==
    [kind : {"frame"}, channel : {0}, bytes : {<< >>, << 36 >>}]
      \cup {[kind |-> "frame", channel |-> 1, bytes |-> << 36 >>],
            [kind |-> "text", channel |-> 0, bytes |-> << 82, 13, 10, 13, 10 >>]}

\* the bytes of one item on the wire: struct "!BBH" is '$', the channel and
\* the payload length as two bytes, most significant first
Wire(item) ==
    IF item.kind = "frame"
    THEN << 36, item.channel, Len(item.bytes) \div 256,
            Len(item.bytes) % 256 >> \o item.bytes
    ELSE item.bytes

RECURSIVE Encode(_)
Encode(items) ==
    IF items = << >> THEN << >>
    ELSE Wire(Head(items)) \o Encode(Tail(items))

\* receive_data(handler_map, stop_event) is entered: buffer = b"".  stop_event
\* is None, or an Event that another thread (or a handler) sets.  cut (a
\* recv ended inside an item) and late (the packets handed to a handler
\* while the flag was set) are history, not state of the code.
NewReceiver(items, stop) ==
    [pc |-> "while", items |-> items, rest |-> Encode(items), got |-> 0,
     buffer |-> << >>, handled |-> << >>, stop_event |-> stop, cut |-> FALSE,
     late |-> 0]

InitReceive ==
    /\ InitRetriever
    /\ callers = {}
    /\ limits = [starts |-> 0, events |-> 0, ticks |-> 0]
    /\ client = NoClient
    /\ rx = Absent
    /\ \E n \in 0..MaxItems, stop \in {"None", "clear"} :
          \E items \in [1..n -> StreamItems] :
             session = NewReceiver(items, stop)

\* the bytes of the stream before an item starts at byte k + 1
RECURSIVE Boundaries(_)
Boundaries(items) ==
    IF items = << >> THEN {0}
    ELSE {0} \cup { Len(Wire(Head(items))) + k : k \in Boundaries(Tail(items)) }

\* mutant of stopped: the flag is never seen set
NeverStopped(ev) == FALSE

\* "stop_event and stop_event.is_set()"
stopped(ev) == ev = "set"

\* "while not (stop_event and stop_event.is_set()):" the loop ends, or the
\* thread goes into sock.recv(4096)
while_check ==
    /\ session.pc = "while"
    /\ session' = [session EXCEPT
                      !.pc = IF stopped(session.stop_event) THEN "returned"
                             ELSE "recv"]
    /\ UNCHANGED sessionFrame

\* sock.recv(4096) returns the next n bytes of the stream, n >= 1
recv(n) ==
    /\ session.pc = "recv"
    /\ n \in 1..Len(session.rest)
    /\ session' = [session EXCEPT
                      !.pc = "demux",
                      !.buffer = @ \o SubSeq(session.rest, 1, n),
                      !.rest = SubSeq(@, n + 1, Len(@)),
                      !.got = @ + n,
                      !.cut = @ \/ (session.got + n
                                       \notin Boundaries(session.items))]
    /\ UNCHANGED sessionFrame

\* recv returns b"" (the server has sent everything and closed) or raises
\* socket.error: break; or it raises socket.timeout after timeout seconds
\* without data: continue
recv_break(why) ==
    /\ session.pc = "recv"
    /\ why = "closed" => session.rest = << >>
    /\ session' = [session EXCEPT
                      !.pc = IF why = "timeout" THEN "while" ELSE "returned"]
    /\ UNCHANGED sessionFrame

\* mutant of registered: every channel has a handler
AnyChannel(channel) == TRUE

\* "if channel in handler_map:"
registered(channel) == channel \in handler_map

\* buffer.find(b"\r\n\r\n"), counted from 1; 0 is -1
RECURSIVE end_idx(_, _)
end_idx(buffer, i) ==
    IF i + 3 > Len(buffer) THEN 0
    ELSE IF SubSeq(buffer, i, i + 3) = << 13, 10, 13, 10 >> THEN i
    ELSE end_idx(buffer, i + 1)

\* one turn of "while len(buffer) >= 4:": a whole framed packet is cut off
\* the buffer and handed to the handler of its channel, a whole text message
\* is cut off, or the loop is left for the next recv
demux ==
    /\ session.pc = "demux"
    /\ LET buffer == session.buffer
           length == buffer[3] * 256 + buffer[4]
           packet == SubSeq(buffer, 5, 4 + length)
           e == end_idx(buffer, 1)
       IN  session' =
             IF Len(buffer) < 4 THEN [session EXCEPT !.pc = "while"]
             ELSE IF buffer[1] = 36
             THEN IF Len(buffer) < 4 + length
                  THEN [session EXCEPT !.pc = "while"]
                  ELSE [session EXCEPT
                          !.buffer = SubSeq(buffer, 5 + length, Len(buffer)),
                          !.handled =
                             IF registered(buffer[2])
                             THEN Append(@, [channel |-> buffer[2],
                                             packet |-> packet])
                             ELSE @,
                          !.late =
                             IF registered(buffer[2])
                                /\ session.stop_event = "set"
                             THEN @ + 1 ELSE @]
             ELSE IF e # 0
                  THEN [session EXCEPT
                          !.buffer = SubSeq(buffer, e + 4, Len(buffer))]
                  ELSE [session EXCEPT !.pc = "while"]
    /\ UNCHANGED sessionFrame

\* stop_event.set(), by the thread that started receive_data or by a handler
set_stop ==
    /\ session.pc \in {"while", "recv", "demux"}
    /\ session.stop_event = "clear"
    /\ session' = [session EXCEPT !.stop_event = "set"]
    /\ UNCHANGED sessionFrame

NextReceive ==
    \/ \E n \in 1..(5 * MaxItems) : recv(n)
    \/ \E why \in {"closed", "error", "timeout"} : recv_break(why)
    \/ while_check
    \/ demux
    \/ set_stop

SpecReceive == InitReceive /\ [][NextReceive]_vars

\* the thread of receive_data keeps running: the while test and the demux
\* take their turn, and recv returns or raises within the socket's timeout
SpecReceiveFair == SpecReceive /\ WF_vars(NextReceive)

\* ============================================================================
\* Properties
\* ============================================================================
\* a dispatch thread calls a consumer callback in this step
Invokes(t) == threads[t].pc = "dispatch" /\ threads'[t].pc = "callback"

\* C1: stop() (close(), __exit__) on a retriever that was never started or is
\* already stopped returns without error and changes nothing: both handles
\* stay None, is_running stays false, no worker and no dispatch thread
\* changes.  A stop() that did stop the retriever leaves it in that state, so
\* any number of further stop() calls leave what it left.
StopOnStoppedIsNoOp ==
    [][ /\ \A c \in CallerIds, op \in StopOps :
             (proc = None /\ stop_begin(c, op)) =>
                 /\ UNCHANGED retrieverVars
                 /\ apiPc'[c] = "idle"
                 /\ queue_thread' = None
                 /\ ~is_running'
        /\ \A c \in CallerIds :
             stop_finish(c) => proc' = None /\ queue_thread' = None
      ]_vars

\* C1 witness: stop() has returned on a retriever that was never started
StoppedBeforeStart == quiet /\ nStarted = 0 /\ proc = None

\* C2: once stop() has returned and until start() is called again, no
\* dispatch thread invokes a consumer callback.
NoCallbackAfterStop ==
    [][ \A t \in Ids : Invokes(t) => ~quiet ]_vars

\* C3: start() while the worker is alive raises RuntimeError and leaves the
\* worker, the dispatch thread, the handles, the queue and the stop flag as
\* they were (no second worker, no second thread).
StartWhileRunningRaises ==
    [][ \A c \in CallerIds, op \in StartOps :
          (is_running /\ start(c, op)) =>
              /\ apiPc'[c] = "RuntimeError"
              /\ UNCHANGED retrieverVars
      ]_vars

\* C3 witness: a start() on a running retriever has raised RuntimeError
RejectedStart == \E c \in CallerIds : apiPc[c] = "RuntimeError" /\ is_running

\* C4: is_running is true exactly when a live worker process exists: false
\* before the first start(), true right after a start() (a stopped retriever
\* starts again, without error), false once the worker has died and false
\* after stop() / close() / __exit__ have returned, over all cycles.
IsRunningTracksWorker ==
    /\ [](is_running <=> \E w \in Ids : is_alive(w))
    /\ [](nStarted = 0 => ~is_running)
    /\ [](quiet => ~is_running)
    /\ [][ \A c \in CallerIds, op \in StartOps :
             (~is_running /\ start(c, op)) =>
                 is_running' /\ apiPc'[c] = "idle" ]_vars
    /\ [][ \A w \in Ids :
             (is_alive(w) /\ ~is_alive(w)') => ~is_running' ]_vars
    /\ [][ \A c \in CallerIds : stop_finish(c) => ~is_running' ]_vars

\* C4 witness: the retriever runs again after a full start/stop cycle
RunningAgain == is_running /\ nStarted > 1

\* C5: when a callback raises, the dispatch thread goes back to its loop; an
\* event it takes afterwards whose kind has a callback is passed to that
\* callback; the thread still ends when the stop flag is set, and stop()
\* still returns normally with the retriever stopped.
CallbackExceptionKeepsLoop ==
    [][ /\ \A t \in Ids :
             /\ (threads[t].pc = "callback" /\ threads'[t].pc # "callback")
                    => threads'[t].pc = "loop"
             /\ (/\ threads[t].raised
                 /\ threads[t].pc = "dispatch"
                 /\ threads'[t].pc # "dispatch"
                 /\ threads[t].item.kind \in callbacks)
                    => /\ threads'[t].pc = "callback"
                       /\ threads'[t].item = threads[t].item
             /\ (/\ threads[t].raised
                 /\ threads[t].pc = "loop"
                 /\ stop_event
                 /\ threads'[t] # threads[t])
                    => threads'[t].pc = "done"
        /\ \A c \in CallerIds :
             (apiPc[c] = "stop_join" /\ stop_finish(c)) =>
                 apiPc'[c] = "idle" /\ ~is_running'
      ]_vars

\* C5 witness: a thread one of whose callbacks raised is inside a callback
\* again
InvokedAfterRaise ==
    \E t \in Ids : threads[t].raised /\ threads[t].pc = "callback"

InFlight(t) == threads[t].pc \in {"dispatch", "callback"}

\* C6: a dequeued event goes to the callback registered for its kind, and to
\* no other, unchanged; it has left the queue, so it is dispatched once; an
\* event whose kind has no callback invokes none.
DispatchMatchesKind ==
    /\ [](\A t \in Ids : threads[t].pc = "callback" =>
             /\ threads[t].cb = threads[t].item.kind
             /\ threads[t].cb \in callbacks)
    /\ [](/\ \A i, j \in 1..Len(queue) : queue[i] = queue[j] => i = j
          /\ \A t \in Ids, i \in 1..Len(queue) :
               InFlight(t) => threads[t].item # queue[i]
          /\ \A t, u \in Ids :
               (InFlight(t) /\ InFlight(u) /\ threads[t].item = threads[u].item)
                   => t = u)
    /\ [][ \A t \in Ids :
             /\ (threads[t].pc = "get" /\ threads'[t].pc = "dispatch") =>
                    /\ threads'[t].item = Head(queue)
                    /\ queue' = Tail(queue)
             /\ (threads[t].pc = "dispatch" /\ threads'[t].pc # "dispatch") =>
                    IF threads[t].item.kind \in callbacks
                    THEN /\ threads'[t].pc = "callback"
                         /\ threads'[t].item = threads[t].item
                         /\ threads'[t].cb = threads[t].item.kind
                    ELSE threads'[t].pc = "loop"
      ]_vars

\* C6 witness: an error event is in the hands of the error callback
ErrorCallbackInvoked ==
    \E t \in Ids : threads[t].pc = "callback" /\ threads[t].item.kind = "error"

\* C7: while the retriever is started and stop() has not been called, an
\* error event on the queue still has the dispatch thread that will deliver
\* it to on_error.
ErrorEventHasDispatcher ==
    (/\ is_running
     /\ ~stop_event
     /\ "error" \in callbacks
     /\ \E i \in 1..Len(queue) : queue[i].kind = "error")
        => thread_is_alive(queue_thread)

\* C8: a callback is never invoked for an event while a later event of the
\* same kind is already inside its callback.
InvokedInOrder ==
    [][ \A t, u \in Ids :
          (/\ Invokes(t)
           /\ u # t
           /\ threads[u].pc = "callback"
           /\ threads[u].item.kind = threads[t].item.kind)
              => threads[u].item.n < threads[t].item.n
      ]_vars

\* the Initialization events on the queue
InitializationCount ==
    Cardinality({i \in 1..Len(queue) :
                    /\ queue[i].kind = "error"
                    /\ queue[i].error_type = "Initialization"})

\* C9: a worker whose client raised while being created or started exits
\* with status 1 (unless the parent terminates it first), and only after
\* exactly one Initialization error event was queued; no such event is
\* queued without a failure.
InitializationErrorBeforeExit ==
    /\ client.exitcode = "1" => client.failed /\ InitializationCount = 1
    /\ (client.failed /\ client.pc = "exited" /\ client.exitcode # "-15")
           => client.exitcode = "1"
    /\ client.pc = "reported" => InitializationCount = 1
    /\ ~client.failed => InitializationCount = 0

\* C9 witness: a worker has exited with status 1
ExitedWithFailure == client.pc = "exited" /\ client.exitcode = "1"

\* C10: once a bus ERROR has been reported as an error event, the main loop
\* of the client no longer runs.
BusErrorStopsClient ==
    (\E i \in 1..Len(queue) :
        /\ queue[i].kind = "error"
        /\ queue[i].error_type = "GStreamer Error")
        => ~client.loop

\* the queued events that are Timeout errors
IsTimeoutError(e) == e.kind = "error" /\ e.error_type = "Timeout"

\* C11: a Timeout error is reported only when no video frame and no
\* application-data message was produced before it.
TimeoutOnlyWithoutEvents ==
    \A i \in 1..Len(queue) :
        IsTimeoutError(queue[i]) =>
            \A j \in 1..(i - 1) :
                queue[j].kind \notin {"video", "application_data"}

NoXmlStartClearsAccumulator ==
    /\ [](rx.pc = "grabber" => rx.xml_acc = rx.own)
    /\ [][\A raw \in Packets, raises \in BOOLEAN :
            (/\ on_new_application_data_sample(raw, raises)
             /\ Len(raw) >= 12 /\ Len(raw) >= 12 + 4 * (raw[1] % 16)
             /\ raw[2] >= 128
             /\ \A i \in 1..Len(rx.xml_acc) : rx.xml_acc[i] # 60
             /\ \A i \in (13 + 4 * (raw[1] % 16))..Len(raw) : raw[i] # 60)
            => /\ rx'.res = "XML Parse"
               /\ rx'.err_cnt = rx.err_cnt + 1
               /\ rx'.xml_cnt = rx.xml_cnt
               /\ rx'.text = << >>
               /\ rx'.xml_acc = << >>
       ]_vars

\* two packets without '<' were accumulated and discarded with one error
DiscardedWithoutXmlStart ==
    rx.pc = "grabber" /\ rx.res = "XML Parse" /\ rx.fed = 2 /\ rx.err_cnt = 1

\* C14: after a packet was rejected for its length (RTP Header error) the
\* accumulator is empty.
HeaderErrorClearsAccumulator ==
    (rx.pc = "grabber" /\ rx.res = "RTP Header") => rx.xml_acc = << >>

\* C15: a packet shorter than 12 bytes, or shorter than 12 bytes plus four
\* per CSRC, adds nothing to the accumulator of either parser and nothing
\* of it is handed over.
TruncatedPacketAddsNothing ==
    [][\A raw \in Packets, raises \in BOOLEAN :
          (Len(raw) < 12 \/ Len(raw) < 12 + 4 * (raw[1] % 16))
          => /\ on_new_application_data_sample(raw, raises)
                => rx'.xml_acc = rx.xml_acc /\ rx'.text = << >>
             /\ handle_packet(raw, raises)
                => /\ rx'.xml_buffer = rx.xml_buffer
                   /\ rx'.processed = rx.processed
      ]_vars

\* C16: a request whose first response is a success was written once and
\* that response is returned without the error of a missing challenge; no
\* request is written more than twice.
FirstSuccessIsFinal ==
    /\ Len(session.last.written) <= 2
    /\ session.last.first = 200
       => /\ Len(session.last.written) = 1
          /\ session.last.error #
               "Missing WWW-Authenticate header with digest in 401 response."

PlayOnlyAfterSetup ==
    \A i \in 1..Len(session.last.written) :
        session.last.written[i].method = "PLAY"
            => session.last.written[i].session

\* C19: run_metadata_client goes on to SETUP only with the value of the
\* first a=control: line that has an m=application line before it and no
\* other m= line in between; with no such line, or an empty value, it ends
\* with the track-not-found error and no SETUP request is written.
FirstApplicationControlSelected ==
    LET sdp == session.sdp
        qualifies(i) ==
            /\ sdp[i].tag = "a=control:"
            /\ \E k \in 1..(i - 1) :
                  /\ sdp[k].tag = "m="
                  /\ sdp[k].value \in {"application", "Application"}
                  /\ \A j \in (k + 1)..(i - 1) : sdp[j].tag # "m="
        first(i) == qualifies(i) /\ \A j \in 1..(i - 1) : ~qualifies(j)
    IN  /\ (/\ session.pc \notin {"none", "api"}
            /\ \/ session.pc \in {"setup", "play", "receive"}
               \/ "SETUP" \in session.sent)
           => \E i \in 1..Len(sdp) :
                 /\ first(i)
                 /\ session.track_control = sdp[i].value
                 /\ sdp[i].value # ""
        /\ (/\ session.last.method = "discover"
            /\ \A i \in 1..Len(sdp) : first(i) => sdp[i].value = "")
           => /\ session.pc = "teardown"
              /\ "SETUP" \notin session.sent
              /\ session.last.error =
                   "Metadata track control URL not found in SDP."

\* a track was selected from a three-line SDP whose first line is a control
\* line, before any m= line, with another value
SelectedAfterOthers ==
    /\ session.pc = "setup"
    /\ Len(session.sdp) = 3
    /\ session.sdp[1].tag = "a=control:"
    /\ session.sdp[1].value # session.track_control

StopFlagStaysSet ==
    [][(stop_event /\ ~stop_event')
          => \A t \in Ids : ~thread_is_alive(t)]_vars

\* C25: the queue between the worker and the retriever never holds more
\* than one video event (a capacity of depth 1).
VideoQueueWithinCapacity ==
    Cardinality({i \in 1..Len(queue) : queue[i].kind = "video"}) <= 1

\* C27: run_metadata_client looks for the track only after a DESCRIBE that
\* succeeded, sends SETUP only after the track was found, PLAY only after a
\* SETUP that succeeded, and receives only after a PLAY that succeeded; a
\* step that raised is followed by teardown() only; teardown() runs once,
\* as the last step.
RunInOrder ==
    /\ [](session.pc = "receive"
          => session.last.method = "PLAY" /\ session.last.error = "none")
    /\ [](session.pc \notin {"none", "api"} /\ session.last.error # "none"
          => session.pc = "teardown")
    /\ [](session.pc = "stopped" => session.last.method = "TEARDOWN")
    /\ [][session.pc \notin {"none", "api"} =>
            LET calls(method) == /\ session'.last.method = method
                                 /\ session.last.method # method
                succeeded(method) == /\ session.last.method = method
                                     /\ session.last.error = "none"
            IN  /\ calls("discover") =>
                      succeeded("DESCRIBE") /\ session.last.status = 200
                /\ calls("SETUP") => succeeded("discover")
                /\ calls("PLAY") =>
                      /\ succeeded("SETUP")
                      /\ session.last.status = 200
                      /\ session.session_id # << >>
                /\ calls("TEARDOWN") => "TEARDOWN" \notin session.sent
                /\ session.pc = "stopped" => session' = session
       ]_vars

\* run_metadata_client has gone through all steps
RunCompleted ==
    /\ session.pc = "stopped"
    /\ session.sent = {"DESCRIBE", "SETUP", "PLAY", "TEARDOWN"}

\* C22: a whole packet without header extension and without marker bit adds
\* to the accumulator of either handler exactly its bytes after the fixed
\* header and the CSRC list.
PayloadAfterCsrcList ==
    [][\A raw \in Packets, raises \in BOOLEAN :
          (/\ Len(raw) >= 12 /\ Len(raw) >= 12 + 4 * (raw[1] % 16)
           /\ raw[1] < 144 /\ raw[2] < 128)
          => LET payload == SubSeq(raw, 13 + 4 * (raw[1] % 16), Len(raw))
             IN  /\ on_new_application_data_sample(raw, raises)
                    => rx'.xml_acc = rx.xml_acc \o payload
                 /\ handle_packet(raw, raises)
                    => rx'.xml_buffer = rx.xml_buffer \o payload
      ]_vars

\* C23: a packet with the extension flag and without marker bit adds to the
\* accumulator exactly its bytes after the fixed header, the CSRC list and
\* the extension (four bytes and four per word of its length field); when
\* it is too short for that extension it is rejected and adds nothing.
ExtensionNotInPayload ==
    [][\A raw \in Packets, raises \in BOOLEAN :
          (/\ on_new_application_data_sample(raw, raises)
           /\ Len(raw) >= 12 /\ Len(raw) >= 12 + 4 * (raw[1] % 16)
           /\ raw[1] >= 144 /\ raw[2] < 128)
          => LET hdr == 12 + 4 * (raw[1] % 16)
                 words == raw[hdr + 3] * 256 + raw[hdr + 4]
             IN  IF Len(raw) < hdr + 4 \/ Len(raw) < hdr + 4 + 4 * words
                 THEN rx'.xml_acc = rx.xml_acc /\ rx'.res = "RTP Header"
                 ELSE rx'.xml_acc = rx.xml_acc
                          \o SubSeq(raw, hdr + 4 + 4 * words + 1, Len(raw))
      ]_vars

\* C28: after a packet with the marker bit was handled the accumulator of
\* either handler is empty, also when the consumer callback or the
\* process_xml hook raised.
AccumulatorEmptyAfterMarker ==
    [][\A raw \in Packets, raises \in BOOLEAN :
          (/\ Len(raw) >= 12 /\ Len(raw) >= 12 + 4 * (raw[1] % 16)
           /\ raw[2] >= 128)
          => /\ on_new_application_data_sample(raw, raises)
                => rx'.xml_acc = << >>
             /\ handle_packet(raw, raises) => rx'.xml_buffer = << >>
      ]_vars

\* C24: the capture time is ntp_seconds - 2208988800 + ntp_fraction / 2^32,
\* to the nearest float; for ntp_seconds = 3871129600 (0xE6BC C000) and
\* ntp_fraction = 0 it is 1662140800 exactly.
NtpToUnix ==
    (/\ client.pc = "probe" /\ client.probed
     /\ client.latest_rtp_data.ntp_seconds[1] >= 50091) =>
       LET d == client.latest_rtp_data
           seconds == (d.ntp_seconds[1] - 32768) * 65536 + d.ntp_seconds[2]
                         - 61505152
           carry == d.unix_ts.sec - seconds
           off == (carry * 4194304 + d.unix_ts.frac
                      - d.ntp_fraction[1] * 64
                      - d.ntp_fraction[2] \div 1024) * 1024
                  - (d.ntp_fraction[2] % 1024)
       IN  /\ carry \in {0, 1}
           /\ d.unix_ts.frac \in 0..4194303
           /\ off \in -512..512
           /\ (d.ntp_seconds = << 59068, 49152 >>
               /\ d.ntp_fraction = << 0, 0 >>)
              => d.unix_ts = [sec |-> 1662140800, frac |-> 0]

\* C24 as stated: for ntp_seconds = 3871129600 and ntp_fraction = 0 the
\* capture time is 1662141000.
NtpExampleAsStated ==
    (/\ client.pc = "probe" /\ client.probed
     /\ client.latest_rtp_data.ntp_seconds = << 59068, 49152 >>
     /\ client.latest_rtp_data.ntp_fraction = << 0, 0 >>)
    => client.latest_rtp_data.unix_ts = [sec |-> 1662141000, frac |-> 0]

\* the probe has seen ntp_seconds = 3871129600, ntp_fraction = 0
ExampleProbed ==
    /\ client.pc = "probe" /\ client.probed
    /\ client.latest_rtp_data.ntp_seconds = << 59068, 49152 >>
    /\ client.latest_rtp_data.ntp_fraction = << 0, 0 >>

\* C26: the error events of one client carry error_count 1, 2, 3, ... in
\* the order in which they are queued.
ErrorCountsInSequence ==
    client.pc # "none" =>
       LET reported(e) == e.kind = "error" /\ e.error_type # "Initialization"
           errors == SelectSeq(queue, reported)
       IN  \A i \in 1..Len(errors) : errors[i].error_count = i

\* the leading items of a stream that lie wholly within its first k bytes
RECURSIVE Whole(_, _)
Whole(items, k) ==
    IF items = << >> THEN << >>
    ELSE IF Len(Wire(Head(items))) > k THEN << >>
    ELSE << Head(items) >> \o Whole(Tail(items), k - Len(Wire(Head(items))))

\* C21: whatever the stream and however recv() splits it, between two turns
\* of the receive loop the handlers have been handed exactly the framed
\* packets of registered channels that were received whole, once each, in
\* stream order, with their payload bytes; text messages and frames of other
\* channels are consumed and handed to nobody, and the buffer holds only the
\* bytes of the item that is not whole yet.
EachFrameHandedOnce ==
    session.pc \in {"while", "recv", "demux", "returned"} =>
       LET whole == Whole(session.items, session.got)
           for_handler(item) == item.kind = "frame" /\ item.channel = 0
           due == SelectSeq(whole, for_handler)
           expected == [i \in 1..Len(due) |->
                           [channel |-> due[i].channel,
                            packet |-> due[i].bytes]]
       IN  IF session.pc = "demux"
           THEN /\ Len(session.handled) <= Len(expected)
                /\ session.handled = SubSeq(expected, 1, Len(session.handled))
           ELSE /\ session.handled = expected
                /\ session.buffer =
                      SubSeq(Encode(session.items),
                             Len(Encode(whole)) + 1, session.got)

\* a stream of a text message, a frame of channel 1 and a frame of channel
\* 0 was received in pieces that cut an item, and the loop has ended
SplitStreamDelivered ==
    /\ session.pc = "returned"
    /\ "cut" \in DOMAIN session
    /\ session.cut
    /\ session.rest = << >>
    /\ Len(session.items) = 3
    /\ session.items[1].kind = "text"
    /\ session.items[2].channel = 1
    /\ session.items[3] = [kind |-> "frame", channel |-> 0, bytes |-> << 36 >>]
    /\ session.handled = << [channel |-> 0, packet |-> << 36 >>] >>

\* C30: the stop flag is looked at after each packet dispatch, so once it is
\* set no further packet is handed to a handler: at most the one packet
\* whose dispatch was due when the flag was set, never a second one.
NoDispatchAfterStop ==
    session.pc \in {"while", "recv", "demux", "returned"} => session.late <= 1

\* C39: once the client was stopped (EOS, parent monitor) and its main loop
\* has ended, the timeout timer does not act: its handler does not start, so
\* no Timeout error is counted or reported and stop() is not run again.
TimerSilentAfterStop ==
    [][ (/\ client.pc \in {"running", "returned"}
         /\ ~client.loop
         /\ client.timer = "pending")
           => /\ client'.timer # "reporting"
              /\ client'.err_cnt = client.err_cnt ]_vars

\* C35: the stored capture timestamp is replaced only by a buffer whose
\* extension has the id 0xABAC and at least 12 bytes of data; C, E, D, T are
\* then bits 31..28 of the word at bytes 8..11 and CSeq its low 8 bits.  Any
\* other buffer that was mapped leaves the client as it was, error count
\* included.
OnlyOnvifExtensionReplaces ==
    [][ \A ext_id \in {None, 43948, 43949}, payload \in ProbePayloads :
          rtp_probe(TRUE, ext_id, payload) =>
             IF ext_id = 43948 /\ Len(payload) >= 12
             THEN LET d == client'.latest_rtp_data
                  IN  /\ d.C = payload[9] \div 128
                      /\ d.E = (payload[9] \div 64) % 2
                      /\ d.D = (payload[9] \div 32) % 2
                      /\ d.T = (payload[9] \div 16) % 2
                      /\ d.CSeq = payload[12]
                      /\ d.ntp_seconds = from_bytes(SubSeq(payload, 1, 4))
                      /\ d.ntp_fraction = from_bytes(SubSeq(payload, 5, 8))
             ELSE client' = client ]_vars

\* C33: no two requests written to the socket carry the same CSeq, and the
\* values only increase: within one send_rtsp (the request and its
\* authenticated re-send) and from one call to the next.
CSeqIncreases ==
    [][ \A i, j \in 1..Len(session'.last.written) :
           /\ i < j => session'.last.written[i].cseq
                          < session'.last.written[j].cseq
           /\ (session.pc \notin {"none", "while", "recv", "demux", "returned"}
               /\ session'.last # session.last)
                 => \A k \in 1..Len(session.last.written) :
                       session.last.written[k].cseq
                          < session'.last.written[i].cseq ]_vars

\* C34: the session id is unset until a setup() succeeds and is then the
\* Session: header value of that response up to its first ";"; only a
\* successful setup() changes it; a request carries a Session: header, with
\* the session id, exactly when the id was set when it was written.
SessionIdFromSetup ==
    /\ [](session.session_id # << >> => "SETUP" \in session.sent)
    /\ [][ /\ \A r1 \in FirstResponses, r2 \in SetupResponses :
                (setup(r1, r2) /\ session'.last.error = "none") =>
                   LET v == r2.session
                       stops == {i \in 1..Len(v) : v[i] = ";"} \cup {Len(v) + 1}
                       n == CHOOSE i \in stops : \A k \in stops : i <= k
                   IN  /\ n > 1
                       /\ session'.session_id = SubSeq(v, 1, n - 1)
           /\ (session'.last.method # "SETUP"
               \/ session'.last.error # "none"
               \/ session'.last = session.last)
                 => session'.session_id = session.session_id
           /\ session'.last # session.last =>
                 \A i \in 1..Len(session'.last.written) :
                    LET req == session'.last.written[i]
                    IN  /\ req.session = (session.session_id # << >>)
                        /\ req.session_header = session.session_id
       ]_vars

\* C34 as stated: after a successful setup() the session id is the Session:
\* header value of the response verbatim, its parameters included.
SessionIdVerbatim ==
    [][ \A r1 \in FirstResponses, r2 \in SetupResponses :
           (setup(r1, r2) /\ session'.last.error = "none")
              => session'.session_id = r2.session ]_vars

\* after a successful setup() a PLAY exchange was written with the session
\* id in both requests
PlayedWithSessionId ==
    /\ session.pc \in {"api", "receive"}
    /\ session.session_id = << "7" >>
    /\ session.last.method = "PLAY"
    /\ Len(session.last.written) = 2
    /\ \A i \in 1..2 : /\ session.last.written[i].session
                       /\ session.last.written[i].session_header = << "7" >>

\* C31: the receive loop ends when recv returns no bytes or raises a socket
\* error; once the stop flag is set, no receive is begun any more (the one
\* under way is the last), and the loop ends.
ReceiveLoopEnds ==
    /\ [][ /\ \A why \in {"closed", "error"} :
                recv_break(why) => session'.pc = "returned"
           /\ (session.stop_event = "set" /\ session.pc # "recv")
                 => session'.pc # "recv" ]_vars
    /\ (session.stop_event = "set") ~> (session.pc = "returned")

\* the loop has ended on the stop flag, with bytes of the stream not yet
\* received and bytes of a packet that is not whole yet in the buffer
EndedByStopFlag ==
    /\ session.pc = "returned"
    /\ session.stop_event = "set"
    /\ session.rest # << >>
    /\ session.buffer # << >>

\* C40: no byte that the server sent after the PLAY response is lost: what
\* the read of the control exchange returned beyond the response reaches
\* the buffer of the receive loop.
StreamReachesDemux ==
    session.pc \in {"api", "describe", "discover", "setup", "play",
                    "receive", "teardown", "stopped"}
       => session.lost = 0

\* the dispatch thread t has left its loop in this step
Leaves(t) == thread_is_alive(t) /\ threads'[t].pc = "done"

\* the dispatch thread t takes a step
Steps(t) == threads'[t] # threads[t]

OneDispatcherConsumes ==
    Cardinality({t \in Ids : threads[t].pc \in {"dispatch", "callback"}}) <= 1

\* C37: an event handed to a callback was queued by the worker of the
\* latest start(): no event of an earlier cycle is delivered after the
\* retriever was started again.
NoEventOfEarlierCycle ==
    [][ \A t \in Ids : Invokes(t) => threads[t].item.gen = nStarted ]_vars

\* the caller c of stop() or the dispatch thread t reads an attribute of
\* self._proc in this step
CallerReadsProc(c) ==
    apiPc[c] \in {"stop_alive", "exit_alive"} /\ apiPc'[c] # apiPc[c]

ThreadReadsProc(t) == threads[t].pc = "alive" /\ Steps(t)

\* C38: with stop() called by two threads at once and next to the dispatch
\* thread, no call raises, nobody reads an attribute of the worker handle
\* when the handle is None, and once every call has returned the retriever
\* is stopped: the handle is None and no worker is alive.
StopIsThreadSafe ==
    /\ [](\A c \in callers : apiPc[c] # "AttributeError")
    /\ [][ /\ \A c \in callers : CallerReadsProc(c) => proc # None
           /\ \A t \in Ids : ThreadReadsProc(t) => proc # None ]_vars
    /\ []((quiet /\ \A c \in callers : apiPc[c] = "idle")
             => /\ proc = None
                /\ \A w \in Ids : ~is_alive(w))

====
